---- MODULE Spec2Model ----
(***************************************************************************)
(* Model of the kernel bring-up routine OsInitialize of                    *)
(* kernel/core/init.cc: the construction of the kernel address space from  *)
(* the boot loader's handoff record, the activation of the new root, and   *)
(* the hardening of the loaded kernel image.                               *)
(*                                                                         *)
(* Addresses are counted in cells; a page holds page_size cells and a      *)
(* table node holds EntriesPerTable entries, so that the four-level walk,  *)
(* the rounding of sizes to pages and the stride of the memory map all     *)
(* keep their arithmetic at a size TLC can enumerate.                      *)
(***************************************************************************)
EXTENDS Integers, Sequences, FiniteSets, TLC

(* ------------------------------ bounds -------------------------------- *)
\* longest firmware memory map (descriptors)
MaxDescs == 2
\* largest declared descriptor stride (cells)
MaxStride == 3
\* most sections in the kernel image's section table
MaxSections == 2
\* page count of a page-table pool large enough for every mapping
SufficientPool == 24
\* largest VirtualSize of a section (cells)
MaxSectionSize == 3

(* ------------------------- scaled constants --------------------------- *)
\* cells per page
page_size == 2
\* entries of one table node
EntriesPerTable == 4
\* levels of the hierarchy
Levels == 4
\* sizeof(uefi::memory_descriptor), in cells
MinDescriptorSize == 2

RECURSIVE Pow(_, _)
Pow(b, e) == IF e = 0 THEN 1 ELSE b * Pow(b, e - 1)

\* SizeToPages: a size in cells rounded up to whole pages
SizeToPages(size) == (size + page_size - 1) \div page_size

(* ------------------------ kernel virtual layout ----------------------- *)
\* kva::kernel.base
KvaKernelBase == 64 * page_size
\* kva::kernel_pt.base
KvaKernelPtBase == 80 * page_size
\* kva::frame_buffer (base and PageCount())
KvaFrameBuffer == [base |-> 128 * page_size, page_count |-> 2]
\* kva::devices
KvaDevices == [base |-> 132 * page_size, page_count |-> 4]

(* --------------------------- physical layout -------------------------- *)
PhysPool == 16 * page_size
PhysKernel == 40 * page_size
PhysFrameBuffer == 200 * page_size
PhysHpet == 210 * page_size
PhysIoApic == 211 * page_size
PhysLocalApic == 212 * page_size

(* ------------------------- page-table hierarchy ----------------------- *)
NoEntry == [present |-> FALSE, writable |-> FALSE, addr |-> 0]
ZeroNode == [i \in 0 .. EntriesPerTable - 1 |-> NoEntry]

Vpn(va) == va \div page_size

\* index into the table of the given level (Levels = root, 1 = leaf table)
TableIndex(va, level) ==
    (Vpn(va) \div Pow(EntriesPerTable, level - 1)) % EntriesPerTable

\* the node stored in the pool page at physical address pa
NodeOf(pool, pa) == (pa - pool.physical) \div page_size + 1

\* mm::AllocatePhysical: the next page of the pool, zero-filled; its physical
\* address is written to the caller's slot (out).  ok = FALSE: pool exhausted.
AllocatePhysical(ps) ==
    IF ps.pool.used >= ps.pool.pages
    THEN [ps EXCEPT !.ok = FALSE]
    ELSE [ps EXCEPT !.nodes = Append(@, ZeroNode),
                    !.pool.used = @ + 1,
                    !.out = ps.pool.physical + ps.pool.used * page_size]

\* one page of mm::MapPages: walk from the root, allocate every missing
\* intermediate table, write a present, writable leaf entry.  The arguments
\* are passed by value: each is evaluated once, before the walk.
RECURSIVE MapWalk(_, _, _, _, _)
RECURSIVE MapWalkLevel(_, _, _, _, _)
MapWalk(ps, node, level, va, pa) ==
    CHOOSE r \in {MapWalkLevel(t[1], t[2], level, t[3], t[4]) :
                      t \in {<<ps, node, va, pa>>}} : TRUE
MapWalkLevel(ps, node, level, va, pa) ==
    LET idx == TableIndex(va, level)
        e == ps.nodes[node][idx]
    IN  IF level = 1
        THEN [ps EXCEPT !.nodes[node][idx] =
                            [present |-> TRUE, writable |-> TRUE, addr |-> pa]]
        ELSE IF e.present
        THEN MapWalk(ps, NodeOf(ps.pool, e.addr), level - 1, va, pa)
        ELSE LET a == AllocatePhysical(ps)
             IN  IF ~a.ok
                 THEN a
                 ELSE MapWalk([a EXCEPT !.nodes[node][idx] =
                                   [present |-> TRUE, writable |-> TRUE,
                                    addr |-> a.out]],
                              NodeOf(a.pool, a.out), level - 1, va, pa)

\* mm::MapPages(pool, virtual_base, physical_base, page_count)
RECURSIVE MapPages(_, _, _, _)
RECURSIVE MapPagesFrom(_, _, _, _)
MapPages(ps, va, pa, count) ==
    CHOOSE r \in {MapPagesFrom(t[1], t[2], t[3], t[4]) :
                      t \in {<<ps, va, pa, count>>}} : TRUE
MapPagesFrom(ps, va, pa, count) ==
    IF count = 0 \/ ~ps.ok
    THEN ps
    ELSE MapPages(MapWalk(ps, NodeOf(ps.pool, ps.pool.root), Levels, va, pa),
                  va + page_size, pa + page_size, count - 1)

\* mm::GetPresentPte: the leaf entry of an already mapped address;
\* found = FALSE when a level of the walk is absent
RECURSIVE PteWalk(_, _, _, _)
RECURSIVE PteWalkLevel(_, _, _, _)
PteWalk(ps, node, level, va) ==
    CHOOSE r \in {PteWalkLevel(ps, t[1], level, t[2]) :
                      t \in {<<node, va>>}} : TRUE
PteWalkLevel(ps, node, level, va) ==
    LET idx == TableIndex(va, level)
        e == ps.nodes[node][idx]
    IN  IF ~e.present
        THEN [found |-> FALSE, node |-> 0, idx |-> 0]
        ELSE IF level = 1
        THEN [found |-> TRUE, node |-> node, idx |-> idx]
        ELSE PteWalk(ps, NodeOf(ps.pool, e.addr), level - 1, va)

GetPresentPte(ps, va) ==
    IF ps.pool.used = 0
    THEN [found |-> FALSE, node |-> 0, idx |-> 0]
    ELSE PteWalk(ps, NodeOf(ps.pool, ps.pool.root), Levels, va)

\* the physical address an address translates to, or -1
Translate(ps, va) ==
    CHOOSE a \in {IF p.found THEN ps.nodes[p.node][p.idx].addr ELSE -1 :
                      p \in {GetPresentPte(ps, va)}} : TRUE

\* count pages from va are mapped to the pages from pa
RangeMapped(ps, va, pa, count) ==
    \A i \in 0 .. count - 1 :
        Translate(ps, va + i * page_size) = pa + i * page_size

(* ------------------------- firmware memory map ------------------------ *)
\* uefi::memory_runtime, a bit of the attribute bitset
memory_runtime == "EFI_MEMORY_RUNTIME"

DescRuntimeCode ==
    [type |-> "EfiRuntimeServicesCode", physical_start |-> 192 * page_size,
     virtual_start |-> 192 * page_size, number_of_pages |-> 2,
     attribute |-> {memory_runtime}]
DescRuntimeMmio ==
    [type |-> "EfiMemoryMappedIO", physical_start |-> 100 * page_size,
     virtual_start |-> 194 * page_size, number_of_pages |-> 1,
     attribute |-> {"EFI_MEMORY_UC", memory_runtime}]
DescConventional ==
    [type |-> "EfiConventionalMemory", physical_start |-> 8 * page_size,
     virtual_start |-> 0, number_of_pages |-> 3,
     attribute |-> {"EFI_MEMORY_WB"}]
DescCatalog == {DescRuntimeCode, DescRuntimeMmio, DescConventional}
\* what a read off the descriptor grid may be taken for
DescGarbage ==
    [type |-> "garbage", physical_start |-> 104 * page_size,
     virtual_start |-> 196 * page_size, number_of_pages |-> 1,
     attribute |-> {"garbage", memory_runtime}]
GarbageDescriptors == {DescGarbage, DescConventional}

DescSeqs == UNION {[1 .. n -> DescCatalog] : n \in 0 .. MaxDescs}

\* a memory map whose declared stride is at least the descriptor size is laid
\* out with that stride and total size count * stride; a map with a smaller
\* declared stride holds its descriptors packed at the descriptor size
MemoryMapOf(descs, stride) ==
    [map |-> descs, descriptor_size |-> stride,
     size |-> IF stride >= MinDescriptorSize
              THEN Len(descs) * stride
              ELSE Len(descs) * MinDescriptorSize]
MemoryMaps == {MemoryMapOf(d, s) : d \in DescSeqs, s \in 0 .. MaxStride}

WellFormed(m) ==
    /\ m.descriptor_size >= MinDescriptorSize
    /\ m.size = Len(m.map) * m.descriptor_size

\* uefi_next_memory_descriptor(desc, size): the descriptor size bytes further
uefi_next_memory_descriptor(desc, size) == desc + size

\* what a read of the descriptor at an offset of the buffer yields: the
\* descriptor stored there, or, off a descriptor boundary, anything
DescriptorsAt(m, off) ==
    LET layout == IF m.descriptor_size >= MinDescriptorSize
                  THEN m.descriptor_size ELSE MinDescriptorSize
    IN  IF off % layout = 0 /\ off + MinDescriptorSize <= m.size
        THEN {m.map[off \div layout + 1]}
        ELSE GarbageDescriptors

\* the loop of IterateMemoryDescriptors cannot end when the stride is 0; the
\* model follows it for this many callbacks
MaxCallbacks == MinDescriptorSize * MaxDescs + 1

(* ----------------------------- kernel image --------------------------- *)
IMAGE_DOS_SIGNATURE == "MZ"
IMAGE_NT_SIGNATURE == "PE"
IMAGE_SCN_MEM_DISCARDABLE == "IMAGE_SCN_MEM_DISCARDABLE"
IMAGE_SCN_MEM_WRITE == "IMAGE_SCN_MEM_WRITE"

\* sections start on page boundaries, one slot of SlotPages pages each, after
\* the page of headers
SlotPages == (MaxSectionSize + page_size - 1) \div page_size
SectionBase(k) == page_size * (1 + SlotPages * (k - 1))
\* less than a page, a page, more than a page
SectionSizes == {1, page_size, MaxSectionSize}
SectionShapes ==
    [VirtualSize : SectionSizes,
     Characteristics : SUBSET {IMAGE_SCN_MEM_DISCARDABLE, IMAGE_SCN_MEM_WRITE}]
\* the sections before the last fill their slot; the last is of any size
LeadingShapes == {s \in SectionShapes : s.VirtualSize = MaxSectionSize}
SectionTablesOfLen(n) ==
    {[k \in 1 .. n |->
        [VirtualAddress |-> SectionBase(k),
         VirtualSize |-> f[k].VirtualSize,
         Characteristics |-> f[k].Characteristics]] :
     f \in {g \in [1 .. n -> SectionShapes] :
                \A k \in 1 .. n - 1 : g[k] \in LeadingShapes}}
SectionTables == UNION {SectionTablesOfLen(n) : n \in 0 .. MaxSections}

ImageOf(magic, signature, sections) ==
    [e_magic |-> magic, Signature |-> signature, sections |-> sections]
Images == {ImageOf(IMAGE_DOS_SIGNATURE, IMAGE_NT_SIGNATURE, t) : t \in SectionTables}

BadImages ==
    {ImageOf("ZM", IMAGE_NT_SIGNATURE, <<>>),
     ImageOf(IMAGE_DOS_SIGNATURE, "EP", <<>>)}
NoImage == ImageOf("", "", <<>>)

\* the size of the loaded image: up to the end of its last section
ImageSize(img) ==
    IF Len(img.sections) = 0
    THEN page_size
    ELSE LET last == img.sections[Len(img.sections)]
         IN  last.VirtualAddress + last.VirtualSize

\* ImageNtHeaders: the extended header, or nullptr when the primary or the
\* extended signature does not match
ImageNtHeaders(img) ==
    IF img.e_magic # IMAGE_DOS_SIGNATURE
    THEN "nullptr"
    ELSE IF img.Signature # IMAGE_NT_SIGNATURE
    THEN "nullptr"
    ELSE "nt_headers"

\* the images the loader may have loaded for a handoff record that gives the
\* image's size
ImagesOfSize(size) == {img \in Images \cup BadImages : ImageSize(img) = size}
KernelSizes == {ImageSize(img) : img \in Images}

\* what the unchecked reads through a null kernel_nt may yield as a section
\* table
GarbageTables == {t \in SectionTables : Len(t) <= 1}

(* --------------------------- handoff records -------------------------- *)
LoaderBlockOf(m, kernel_size, pool_count, ps2) ==
    [display |-> [frame_buffer |-> PhysFrameBuffer,
                  frame_buffer_size |-> page_size + 1],
     madt_header |-> [io |-> PhysIoApic, local |-> PhysLocalApic],
     memory_map |-> m,
     kernel |-> [physical_base |-> PhysKernel, size |-> kernel_size],
     hpet |-> PhysHpet,
     i8042 |-> ps2,
     page_tables_pool |-> PhysPool,
     page_tables_pool_count |-> pool_count]

DefaultMap == MemoryMapOf(<<DescRuntimeCode, DescConventional>>, MaxStride)
\* an image of one section of one cell
DefaultSize == SectionBase(1) + 1
PoolCounts == {0, 1, 6, SufficientPool}

\* the handoff records explored: every memory map, every pool size, every
\* image size, each against the defaults of the others
LoaderBlocks ==
    {LoaderBlockOf(m, DefaultSize, SufficientPool, TRUE) : m \in MemoryMaps}
    \cup {LoaderBlockOf(DefaultMap, DefaultSize, n, ps2) :
        n \in PoolCounts, ps2 \in BOOLEAN}
    \cup {LoaderBlockOf(DefaultMap, size, SufficientPool, TRUE) :
        size \in KernelSizes}

(* ------------------------------- state -------------------------------- *)
VARIABLES
    pc,            \* the statement of OsInitialize about to run
    loader_block,  \* the boot loader's handoff record
    image,         \* the loaded kernel image, once its headers are read
    mem,           \* contents of the image's pages, by virtual address
    apic,          \* apic::io, apic::local, set by the MADT parse
    ps2_init,      \* ps2::Initialize was called
    locals,        \* the values copied out of the handoff record
    pool,          \* mm::PagePool
    nodes,         \* the table nodes stored in the pool's pages
    region_used,   \* pages handed out of each kva region
    cr3,           \* the active address-space root
    activations,   \* writes of cr3
    interrupts,    \* "masked" or "unmasked"
    trace,         \* the bring-up steps started and ended, in order
    inserted,      \* the MapPages / MapPagesInRegion calls, in order
    allocs,        \* the AllocatePhysical calls, in order
    callbacks,     \* the offsets passed to the memory-map callback, in order
    desc,          \* the cursor of IterateMemoryDescriptors
    kernel_nt,     \* the result of ImageNtHeaders
    sections,      \* the section table the hardening loop walks
    table_read,    \* an entry of the section table was read
    section_i,     \* the loop index i
    page,          \* the cursor of the write-protect loop
    edits,         \* the pages whose leaf entry was edited, in order
    unflushed,     \* edited pages not yet flushed from the translation cache
    zeroed,        \* the indices of the sections zero-filled
    console,       \* messages written
    halted,        \* why the machine stopped, "" while it runs
    reads,         \* the reads of the handoff record and of what it points to
    before_hardening, \* the table nodes as the hardening pass found them
    first_pass     \* the memory and table nodes a first hardening pass left

vars == <<pc, loader_block, image, mem, apic, ps2_init, locals, pool, nodes, region_used,
          cr3, activations, interrupts, trace, inserted, allocs, callbacks,
          desc, kernel_nt, sections, table_read, section_i, page, edits,
          unflushed, zeroed, console, halted, reads, before_hardening,
          first_pass>>

\* the statements of OsInitialize, in program order
OsInitializeStatements ==
    << "gfx_init", "serial_init", "parse_madt", "snapshot", "pool",
       "alloc_root", "map_kernel", "map_pt", "map_fb", "map_hpet",
       "map_ioapic", "map_lapic", "iterate", "write_cr3", "set_fb",
       "cpu_init", "timer_init", "ps2", "harden", "unmask", "idle_enter" >>

Swap(order, a, b) ==
    [k \in 1 .. Len(order) |->
        IF order[k] = a THEN b ELSE IF order[k] = b THEN a ELSE order[k]]

\* (mutations) two statements of OsInitialize exchanged
OrderTimerBeforeCpu == Swap(OsInitializeStatements, "cpu_init", "timer_init")
OrderCr3BeforeIterate == Swap(OsInitializeStatements, "iterate", "write_cr3")
OrderPoolRangeLate == Swap(OsInitializeStatements, "map_pt", "map_fb")
OrderHpetBeforeFrameBuffer == Swap(OsInitializeStatements, "map_fb", "map_hpet")
OrderUnmaskBeforeHarden == Swap(OsInitializeStatements, "harden", "unmask")
OrderSnapshotBeforeMadt == Swap(OsInitializeStatements, "parse_madt", "snapshot")

\* the order in which control passes through the statements
StatementOrder == OsInitializeStatements

\* the statement after p
Succ(p) ==
    LET i == CHOOSE k \in 1 .. Len(StatementOrder) : StatementOrder[k] = p
    IN  StatementOrder[i + 1]

Started(step) == <<[step |-> step, ev |-> "start"]>>
Ended(step) == <<[step |-> step, ev |-> "end"]>>
Did(step) == Started(step) \o Ended(step)

\* the pool and its nodes, as the mm:: operations take them
PS == [pool |-> pool, nodes |-> nodes, ok |-> TRUE, out |-> 0]

\* the pool's backing range is inserted in the new hierarchy
PoolRangeMapped(ps) ==
    /\ ps.pool.used > 0
    /\ RangeMapped(ps, ps.pool.base, ps.pool.physical, ps.pool.pages)

\* the AllocatePhysical calls of one statement: one per node obtained, and the
\* failed one if the pool ran out
AllocLog(stage, before, after) ==
    CHOOSE log \in
        {[k \in 1 .. t[1] + (IF t[2] THEN 0 ELSE 1) |->
             [stage |-> stage, mapped |-> t[3], ok |-> k <= t[1]]] :
         t \in {<<after.pool.used - before.pool.used, after.ok,
                  PoolRangeMapped(before)>>}} : TRUE

NoLocals ==
    [memory_map |-> MemoryMapOf(<<>>, 0),
     display |-> [frame_buffer |-> 0, frame_buffer_size |-> 0],
     kernel |-> [physical_base |-> 0, size |-> 0],
     hpet |-> 0, i8042 |-> FALSE, pt_physical |-> 0, pt_pages |-> 0,
     copied |-> FALSE]

Init ==
    /\ loader_block \in LoaderBlocks
    /\ image = NoImage
    /\ mem = [a \in KvaKernelBase ..
                    KvaKernelBase + SizeToPages(loader_block.kernel.size) * page_size - 1 |-> 1]
    /\ pc = "gfx_init"
    /\ apic = [io |-> 0, local |-> 0]
    /\ ps2_init = FALSE
    /\ locals = NoLocals
    /\ pool = [base |-> 0, physical |-> 0, pages |-> 0, used |-> 0, root |-> 0]
    /\ nodes = <<>>
    /\ region_used = [frame_buffer |-> 0, devices |-> 0]
    /\ cr3 = "boot loader root"
    /\ activations = 0
    /\ interrupts = "masked"
    /\ trace = <<>>
    /\ inserted = <<>>
    /\ allocs = <<>>
    /\ callbacks = <<>>
    /\ desc = 0
    /\ kernel_nt = "unset"
    /\ sections = <<>>
    /\ table_read = FALSE
    /\ section_i = 0
    /\ page = 0
    /\ edits = <<>>
    /\ unflushed = {}
    /\ zeroed = {}
    /\ console = <<>>
    /\ halted = ""
    /\ reads = {}
    /\ before_hardening = <<>>
    /\ first_pass = <<>>

paging == <<pool, nodes, region_used, inserted, allocs>>
hardening == <<kernel_nt, sections, table_read, section_i, page, edits, unflushed,
               zeroed, mem>>
hw == <<apic, ps2_init>>
inputs == <<loader_block, image>>
snapshots == <<before_hardening, first_pass>>

\* a read through loader_block, or through a pointer copied out of it, noted
\* with whether the copies of lines 73-79 had been made
ReadOf(target) == reads \cup {[target |-> target, copied |-> locals.copied]}

(* ------------------------- OsInitialize, lines 64-79 ------------------- *)
\* gfx::Initialize(loader_block->display)
GfxInitialize ==
    /\ pc = "gfx_init"
    /\ pc' = Succ("gfx_init")
    /\ trace' = trace \o Did("graphics_init")
    /\ reads' = ReadOf("loader_block")
    /\ UNCHANGED <<snapshots, inputs, hw, locals, paging, cr3, activations, interrupts,
                   callbacks, desc, hardening, console, halted>>

\* serial::Initialize()
SerialInitialize ==
    /\ pc = "serial_init"
    /\ pc' = Succ("serial_init")
    /\ trace' = trace \o Did("serial_init")
    /\ UNCHANGED <<reads, snapshots, inputs, hw, locals, paging, cr3, activations, interrupts,
                   callbacks, desc, hardening, console, halted>>

\* acpi::ParseMadt(loader_block->madt_header, x64::cpu_info)
ParseMadt ==
    /\ pc = "parse_madt"
    /\ pc' = Succ("parse_madt")
    /\ apic' = [io |-> loader_block.madt_header.io,
                local |-> loader_block.madt_header.local]
    /\ trace' = trace \o Did("madt_parse")
    /\ reads' = ReadOf("loader_block") \cup ReadOf("madt")
    /\ UNCHANGED <<snapshots, inputs, ps2_init, locals, paging, cr3, activations, interrupts,
                   callbacks, desc, hardening, console, halted>>

\* the copies of lines 73-79
Snapshot ==
    /\ pc = "snapshot"
    /\ pc' = Succ("snapshot")
    /\ locals' = [memory_map |-> loader_block.memory_map,
                  display |-> loader_block.display,
                  kernel |-> loader_block.kernel,
                  hpet |-> loader_block.hpet,
                  i8042 |-> loader_block.i8042,
                  pt_physical |-> loader_block.page_tables_pool,
                  pt_pages |-> loader_block.page_tables_pool_count,
                  copied |-> TRUE]
    /\ trace' = trace \o Did("snapshot")
    /\ reads' = ReadOf("loader_block")
    /\ UNCHANGED <<snapshots, inputs, hw, paging, cr3, activations, interrupts,
                   callbacks, desc, hardening, console, halted>>

(* ------------------------- OsInitialize, lines 82-103 ------------------ *)
\* mm::PagePool pool(kva::kernel_pt.base, pt_physical, pt_pages)
ConstructPool ==
    /\ pc = "pool"
    /\ pc' = Succ("pool")
    /\ pool' = [base |-> KvaKernelPtBase, physical |-> locals.pt_physical,
                pages |-> locals.pt_pages, used |-> 0, root |-> 0]
    /\ nodes' = <<>>
    /\ trace' = trace \o Started("page_tables")
    /\ UNCHANGED <<reads, snapshots, inputs, hw, locals, region_used, inserted, allocs, cr3,
                   activations, interrupts, callbacks, desc, hardening,
                   console, halted>>

\* (mutation) only a failed root allocation stops the machine
HaltOnlyForRoot(why) ==
    IF pc = "alloc_root"
    THEN pc' = "halt" /\ halted' = why /\ console' = Append(console, why)
    ELSE pc' = Succ(pc) /\ halted' = halted /\ console' = Append(console, why)

\* the machine stops with a diagnostic
Halt(why) ==
    /\ pc' = "halt"
    /\ halted' = why
    /\ console' = Append(console, why)

\* mm::AllocatePhysical(pool, &pool.root)
AllocateRoot ==
    /\ pc = "alloc_root"
    /\ \E r \in {AllocatePhysical(PS)} :
           /\ nodes' = r.nodes
           /\ pool' = [r.pool EXCEPT !.root = IF r.ok THEN r.out ELSE @]
           /\ allocs' = allocs \o AllocLog("root", PS, r)
           /\ IF r.ok
              THEN pc' = Succ("alloc_root") /\ UNCHANGED <<halted, console>>
              ELSE Halt("page pool exhausted")
    /\ UNCHANGED <<reads, snapshots, inputs, hw, locals, region_used, inserted, cr3,
                   activations, interrupts, trace, callbacks, desc, hardening>>

\* a call of mm::MapPages by OsInitialize, followed by the statement next
MapCall(class, va, pa, count, next) ==
    \E r \in {MapPages(PS, va, pa, count)} :
        /\ nodes' = r.nodes
        /\ pool' = r.pool
        /\ allocs' = allocs \o AllocLog(class, PS, r)
        /\ inserted' = Append(inserted,
               [class |-> class, virtual |-> va, physical |-> pa,
                pages |-> count, activations |-> activations])
        /\ IF r.ok
           THEN pc' = next /\ UNCHANGED <<halted, console>>
           ELSE Halt("page pool exhausted")

\* mm::MapPagesInRegion(pool, region, &source, page_count): the next
\* page_count pages of the region's window are mapped to the source's pages
MapPagesInRegion(class, name, region, source, count, next) ==
    /\ MapCall(class, region.base + region_used[name] * page_size, source,
               count, next)
    /\ region_used' = [region_used EXCEPT ![name] = @ + count]

\* (mutation) the size in whole pages, a partial last page dropped
kernel_pages_whole == locals.kernel.size \div page_size

\* const auto kernel_pages = SizeToPages(kernel.size)
kernel_pages == SizeToPages(locals.kernel.size)

\* mm::MapPages(pool, kva::kernel.base, kernel.physical_base, kernel_pages)
MapKernel ==
    /\ pc = "map_kernel"
    /\ MapCall("kernel", KvaKernelBase, locals.kernel.physical_base,
               kernel_pages, Succ("map_kernel"))
    /\ UNCHANGED <<reads, snapshots, inputs, hw, locals, region_used, cr3, activations,
                   interrupts, trace, callbacks, desc, hardening>>

\* mm::MapPages(pool, kva::kernel_pt.base, pt_physical, pt_pages)
MapPageTablePool ==
    /\ pc = "map_pt"
    /\ MapCall("pool", KvaKernelPtBase, locals.pt_physical, locals.pt_pages,
               Succ("map_pt"))
    /\ UNCHANGED <<reads, snapshots, inputs, hw, locals, region_used, cr3, activations,
                   interrupts, trace, callbacks, desc, hardening>>

\* mm::MapPagesInRegion(pool, kva::frame_buffer, &display.frame_buffer,
\*                      kva::frame_buffer.PageCount())
MapFrameBuffer ==
    /\ pc = "map_fb"
    /\ MapPagesInRegion("frame_buffer", "frame_buffer", KvaFrameBuffer,
                        locals.display.frame_buffer,
                        KvaFrameBuffer.page_count, Succ("map_fb"))
    /\ UNCHANGED <<reads, snapshots, inputs, hw, locals, cr3, activations, interrupts, trace,
                   callbacks, desc, hardening>>

\* mm::MapPagesInRegion(pool, kva::devices, &hpet, 1)
MapHpet ==
    /\ pc = "map_hpet"
    /\ MapPagesInRegion("hpet", "devices", KvaDevices, locals.hpet, 1,
                        Succ("map_hpet"))
    /\ UNCHANGED <<reads, snapshots, inputs, hw, locals, cr3, activations, interrupts, trace,
                   callbacks, desc, hardening>>

\* mm::MapPagesInRegion(pool, kva::devices, &apic::io, 1)
MapIoApic ==
    /\ pc = "map_ioapic"
    /\ MapPagesInRegion("io_apic", "devices", KvaDevices, apic.io, 1,
                        Succ("map_ioapic"))
    /\ UNCHANGED <<reads, snapshots, inputs, hw, locals, cr3, activations, interrupts, trace,
                   callbacks, desc, hardening>>

\* mm::MapPagesInRegion(pool, kva::devices, &apic::local, 1)
MapLocalApic ==
    /\ pc = "map_lapic"
    /\ MapPagesInRegion("local_apic", "devices", KvaDevices, apic.local, 1,
                        Succ("map_lapic"))
    /\ UNCHANGED <<reads, snapshots, inputs, hw, locals, cr3, activations, interrupts, trace,
                   callbacks, desc, hardening>>

\* (mutation) only regions of the runtime-services types are taken
RuntimeByType(d) ==
    d.type \in {"EfiRuntimeServicesCode", "EfiRuntimeServicesData"}

\* desc->attribute & uefi::memory_runtime
RuntimeAttributed(d) == memory_runtime \in d.attribute

\* one turn of the loop of IterateMemoryDescriptors, whose test
\* desc < uefi_next_memory_descriptor(m.map, m.size) holds: the callback of
\* lines 99-103 maps the descriptor when its runtime attribute is set, and the
\* cursor moves on by step
IterateTurn(step) ==
    /\ pc = "iterate"
    /\ desc < uefi_next_memory_descriptor(0, locals.memory_map.size)
    /\ Len(callbacks) < MaxCallbacks
    /\ \E d \in DescriptorsAt(locals.memory_map, desc) :
        /\ callbacks' = Append(callbacks, [offset |-> desc, descriptor |-> d])
        /\ reads' = ReadOf("memory descriptors")
        /\ IF RuntimeAttributed(d)
           THEN MapCall("runtime", d.virtual_start, d.physical_start,
                        d.number_of_pages, "iterate")
           ELSE UNCHANGED <<pc, pool, nodes, allocs, inserted, halted, console>>
    /\ IF pc' = "iterate"
       THEN desc' = uefi_next_memory_descriptor(desc, step)
       ELSE desc' = desc
    /\ UNCHANGED <<snapshots, inputs, hw, locals, region_used, cr3, activations,
                   interrupts, trace, hardening>>

\* (mutation) the cursor moves on by the size of the descriptor structure
IterateFixedSize == IterateTurn(MinDescriptorSize)

\* (mutation) the cursor does not move
IterateNoAdvance == IterateTurn(0)

\* IterateMemoryDescriptors(memory_map, callback): the cursor moves on by the
\* declared m.descriptor_size
IterateMemoryDescriptors == IterateTurn(locals.memory_map.descriptor_size)

\* the loop test fails: IterateMemoryDescriptors returns
IterateDone ==
    /\ pc = "iterate"
    /\ ~(desc < uefi_next_memory_descriptor(0, locals.memory_map.size))
    /\ pc' = Succ("iterate")
    /\ trace' = trace \o Ended("page_tables")
    /\ UNCHANGED <<reads, snapshots, inputs, hw, locals, paging, cr3, activations, interrupts,
                   callbacks, desc, hardening, console, halted>>

(* ------------------------- OsInitialize, lines 105-117 ----------------- *)
\* __writecr3(pool.root)
WriteCr3 ==
    /\ pc = "write_cr3"
    /\ pc' = Succ("write_cr3")
    /\ cr3' = pool.root
    /\ activations' = activations + 1
    /\ trace' = trace \o Did("activate_root")
    /\ UNCHANGED <<reads, snapshots, inputs, hw, locals, paging, interrupts, callbacks, desc,
                   hardening, console, halted>>

\* gfx::SetFrameBufferAddress(display.frame_buffer)
SetFrameBufferAddress ==
    /\ pc = "set_fb"
    /\ pc' = Succ("set_fb")
    /\ trace' = trace \o Did("frame_buffer_address")
    /\ UNCHANGED <<reads, snapshots, inputs, hw, locals, paging, cr3, activations, interrupts,
                   callbacks, desc, hardening, console, halted>>

\* x64::cpu_info.using_apic = false; x64::Initialize()
CpuInitialize ==
    /\ pc = "cpu_init"
    /\ pc' = Succ("cpu_init")
    /\ trace' = trace \o Did("cpu_init")
    /\ UNCHANGED <<reads, snapshots, inputs, hw, locals, paging, cr3, activations, interrupts,
                   callbacks, desc, hardening, console, halted>>

\* timer::Initialize(hpet)
TimerInitialize ==
    /\ pc = "timer_init"
    /\ pc' = Succ("timer_init")
    /\ trace' = trace \o Did("timer_init")
    /\ UNCHANGED <<reads, snapshots, inputs, hw, locals, paging, cr3, activations, interrupts,
                   callbacks, desc, hardening, console, halted>>

\* (mutation) a missing controller stops the machine
Ps2CheckFatal ==
    /\ pc = "ps2"
    /\ IF locals.i8042
       THEN ps2_init' = TRUE /\ pc' = Succ("ps2") /\ UNCHANGED <<console, halted>>
       ELSE ps2_init' = FALSE /\ Halt("No PS/2 legacy support.")
    /\ trace' = trace \o Did("legacy_input_check")
    /\ UNCHANGED <<reads, snapshots, inputs, apic, locals, paging, cr3, activations,
                   interrupts, callbacks, desc, hardening>>

\* if (i8042) ps2::Initialize(); else a message
Ps2Check ==
    /\ pc = "ps2"
    /\ pc' = Succ("ps2")
    /\ IF locals.i8042
       THEN ps2_init' = TRUE /\ console' = console
       ELSE ps2_init' = FALSE /\ console' = Append(console, "No PS/2 legacy support.")
    /\ trace' = trace \o Did("legacy_input_check")
    /\ UNCHANGED <<reads, snapshots, inputs, apic, locals, paging, cr3, activations, interrupts,
                   callbacks, desc, hardening, halted>>

(* ------------------------- OsInitialize, lines 134-175 ----------------- *)
\* a fault on an access the hierarchy does not allow
Fault ==
    /\ pc' = "fault"
    /\ halted' = "page fault"
    /\ console' = console

\* auto kernel_nt = ImageNtHeaders((void*)kva::kernel.base);
\* auto section = IMAGE_FIRST_SECTION(kernel_nt); ... kernel_nt->FileHeader.NumberOfSections
\* A null kernel_nt is dereferenced unchecked: the read faults, or yields
\* whatever lies at the addresses read.  The image is the one the loader put
\* at kernel.physical_base, of the size the handoff record gives.
HardenBegin ==
    /\ pc = "harden"
    /\ image' \in (IF first_pass = <<>>
                   THEN ImagesOfSize(locals.kernel.size) ELSE {image})
    /\ before_hardening' = (IF first_pass = <<>> THEN nodes ELSE before_hardening)
    /\ kernel_nt' = ImageNtHeaders(image')
    /\ IF kernel_nt' # "nullptr"
       THEN /\ sections' = image'.sections
            /\ pc' = "section"
            /\ UNCHANGED <<halted, console>>
       ELSE \/ Fault /\ sections' = sections
            \/ /\ sections' \in GarbageTables
               /\ pc' = "section"
               /\ UNCHANGED <<halted, console>>
    /\ section_i' = 0
    /\ trace' = trace \o Started("image_hardening")
    /\ UNCHANGED <<reads, first_pass, loader_block, hw, locals, paging, cr3, activations, interrupts,
                   callbacks, desc, table_read, page, edits, unflushed,
                   zeroed, mem>>

\* the section the loop is at, and its extent
Section == sections[section_i + 1]
SectionStart == KvaKernelBase + Section.VirtualAddress

\* (mutation) the end of the last whole page of the section
SectionEndWholePages ==
    SectionStart + (Section.VirtualSize \div page_size) * page_size

\* const auto end = start + section->Misc.VirtualSize
SectionEnd == SectionStart + Section.VirtualSize

\* (mutation) the last cell is left out
ZeroedCellsShort(start, size) == start .. start + size - 2

\* memzero(start, size): the cells written
ZeroedCells(start, size) == start .. start + size - 1

\* section->Characteristics & IMAGE_SCN_MEM_DISCARDABLE: the message, then
\* memzero(start, size)
ZeroSection ==
    /\ pc = "section"
    /\ section_i < Len(sections)
    /\ IMAGE_SCN_MEM_DISCARDABLE \in Section.Characteristics
    /\ table_read' = TRUE
    /\ IF \A a \in ZeroedCells(SectionStart, Section.VirtualSize) :
              Translate(PS, a) # -1 /\ a \in DOMAIN mem
       THEN /\ mem' = [a \in DOMAIN mem |->
                          IF a \in ZeroedCells(SectionStart, Section.VirtualSize)
                          THEN 0 ELSE mem[a]]
            /\ zeroed' = zeroed \cup {section_i}
            /\ section_i' = section_i + 1
            /\ UNCHANGED <<pc, halted>>
       ELSE /\ pc' = "fault"
            /\ halted' = "page fault"
            /\ UNCHANGED <<mem, zeroed, section_i>>
    /\ console' = Append(console, "Zeroing section")
    /\ UNCHANGED <<reads, snapshots, inputs, hw, locals, paging, cr3, activations, interrupts,
                   trace, callbacks, desc, kernel_nt, sections, page, edits,
                   unflushed>>

\* else if (!(section->Characteristics & IMAGE_SCN_MEM_WRITE)): the message,
\* then page = start
BeginWriteProtect ==
    /\ pc = "section"
    /\ section_i < Len(sections)
    /\ IMAGE_SCN_MEM_DISCARDABLE \notin Section.Characteristics
    /\ IMAGE_SCN_MEM_WRITE \notin Section.Characteristics
    /\ table_read' = TRUE
    /\ page' = SectionStart
    /\ pc' = "protect"
    /\ console' = Append(console, "Write-protecting section")
    /\ UNCHANGED <<reads, snapshots, inputs, hw, locals, paging, cr3, activations, interrupts,
                   trace, callbacks, desc, kernel_nt, sections, section_i,
                   edits, unflushed, zeroed, mem, halted>>

\* a writable, not discardable section: section++
SkipSection ==
    /\ pc = "section"
    /\ section_i < Len(sections)
    /\ IMAGE_SCN_MEM_DISCARDABLE \notin Section.Characteristics
    /\ IMAGE_SCN_MEM_WRITE \in Section.Characteristics
    /\ table_read' = TRUE
    /\ section_i' = section_i + 1
    /\ UNCHANGED <<reads, snapshots, pc, inputs, hw, locals, paging, cr3, activations,
                   interrupts, trace, callbacks, desc, kernel_nt, sections,
                   page, edits, unflushed, zeroed, mem, console, halted>>

\* (mutation) the writable bit is flipped
ToggleWritable(e) == [e EXCEPT !.writable = ~@]

\* (mutation) the entry is cleared whole
ClearEntry(e) == [e EXCEPT !.writable = FALSE, !.present = FALSE, !.addr = 0]

\* pte->writable = false
ClearWritable(e) == [e EXCEPT !.writable = FALSE]

\* auto pte = mm::GetPresentPte(pool, page); pte->writable = false
WriteProtectPage ==
    /\ pc = "protect"
    /\ page < SectionEnd
    /\ LET pte == GetPresentPte(PS, page)
       IN  IF pte.found
           THEN /\ nodes' = [nodes EXCEPT ![pte.node][pte.idx] = ClearWritable(@)]
                /\ edits' = Append(edits, page)
                /\ unflushed' = unflushed \cup {page}
                /\ pc' = "flush"
                /\ UNCHANGED <<halted, console>>
           ELSE Fault /\ UNCHANGED <<nodes, edits, unflushed>>
    /\ UNCHANGED <<reads, snapshots, inputs, hw, locals, pool, region_used, inserted, allocs,
                   cr3, activations, interrupts, trace, callbacks, desc,
                   kernel_nt, sections, table_read, section_i, page, zeroed,
                   mem>>

\* (mutation) the flush is left for later; page += page_size
TlbFlushDeferred ==
    /\ pc = "flush"
    /\ page' = page + page_size
    /\ pc' = "protect"
    /\ UNCHANGED <<reads, snapshots, inputs, hw, locals, paging, cr3, activations,
                   interrupts, trace, callbacks, desc, kernel_nt, sections,
                   table_read, section_i, edits, unflushed, zeroed, mem,
                   console, halted>>

\* x64::TlbFlushAddress((void*)page); page += page_size
TlbFlushAddress ==
    /\ pc = "flush"
    /\ unflushed' = unflushed \ {page}
    /\ page' = page + page_size
    /\ pc' = "protect"
    /\ UNCHANGED <<reads, snapshots, inputs, hw, locals, paging, cr3, activations, interrupts,
                   trace, callbacks, desc, kernel_nt, sections, table_read,
                   section_i, edits, zeroed, mem, console, halted>>

\* the write-protect loop ends: section++
WriteProtectDone ==
    /\ pc = "protect"
    /\ ~(page < SectionEnd)
    /\ section_i' = section_i + 1
    /\ pc' = "section"
    /\ UNCHANGED <<reads, snapshots, inputs, hw, locals, paging, cr3, activations, interrupts,
                   trace, callbacks, desc, kernel_nt, sections, table_read,
                   page, edits, unflushed, zeroed, mem, console, halted>>

\* i < kernel_nt->FileHeader.NumberOfSections fails: the loop ends
SectionsDone ==
    /\ pc = "section"
    /\ ~(section_i < Len(sections))
    /\ pc' = Succ("harden")
    /\ trace' = trace \o Ended("image_hardening")
    /\ UNCHANGED <<reads, snapshots, inputs, hw, locals, paging, cr3, activations, interrupts,
                   callbacks, desc, hardening, console, halted>>

\* x64::unmask_interrupts()
UnmaskInterrupts ==
    /\ pc = "unmask"
    /\ pc' = Succ("unmask")
    /\ interrupts' = "unmasked"
    /\ trace' = trace \o Did("interrupt_unmask")
    /\ UNCHANGED <<reads, snapshots, inputs, hw, locals, paging, cr3, activations, callbacks,
                   desc, hardening, console, halted>>

\* x64::Idle(), which does not return
Idle ==
    /\ pc = "idle_enter"
    /\ pc' = "idle"
    /\ trace' = trace \o Started("idle")
    /\ UNCHANGED <<reads, snapshots, inputs, hw, locals, paging, cr3, activations, interrupts,
                   callbacks, desc, hardening, console, halted>>

Next ==
    \/ GfxInitialize
    \/ SerialInitialize
    \/ ParseMadt
    \/ Snapshot
    \/ ConstructPool
    \/ AllocateRoot
    \/ MapKernel
    \/ MapPageTablePool
    \/ MapFrameBuffer
    \/ MapHpet
    \/ MapIoApic
    \/ MapLocalApic
    \/ IterateMemoryDescriptors
    \/ IterateDone
    \/ WriteCr3
    \/ SetFrameBufferAddress
    \/ CpuInitialize
    \/ TimerInitialize
    \/ Ps2Check
    \/ HardenBegin
    \/ ZeroSection
    \/ BeginWriteProtect
    \/ SkipSection
    \/ WriteProtectPage
    \/ TlbFlushAddress
    \/ WriteProtectDone
    \/ SectionsDone
    \/ UnmaskInterrupts
    \/ Idle

Spec == Init /\ [][Next]_vars

\* one thread of control runs the statements one after the other with
\* interrupts masked: a statement that can run does run
FairSpec == Spec /\ WF_vars(Next)

\* the hardening pass of lines 134-171 entered once more after it has
\* completed, the memory and the table nodes it left being noted
HardenAgain ==
    /\ pc = "unmask"
    /\ first_pass = <<>>
    /\ first_pass' = <<[mem |-> mem, nodes |-> nodes]>>
    /\ pc' = "harden"
    /\ UNCHANGED <<reads, before_hardening, inputs, hw, locals, paging, cr3,
                   activations, interrupts, trace, callbacks, desc, hardening,
                   console, halted>>

NextTwice ==
    \/ Next
    \/ HardenAgain

SpecTwice == Init /\ [][NextTwice]_vars

(* ------------------------------- claims ------------------------------- *)
HasEvent(step, ev) ==
    \E k \in 1 .. Len(trace) : trace[k] = [step |-> step, ev |-> ev]
IterationReturned == HasEvent("page_tables", "end")
HardeningDone == HasEvent("image_hardening", "end")
HeadersValid == kernel_nt = "nt_headers"

\* the steps of the bring-up sequence in the order claimed
ClaimedOrder ==
    << "graphics_init", "serial_init", "madt_parse", "snapshot", "page_tables",
       "activate_root", "frame_buffer_address", "cpu_init", "timer_init",
       "legacy_input_check", "image_hardening", "interrupt_unmask", "idle" >>
ClaimedTrace ==
    [k \in 1 .. 2 * Len(ClaimedOrder) |->
        [step |-> ClaimedOrder[(k + 1) \div 2],
         ev |-> IF k % 2 = 1 THEN "start" ELSE "end"]]

\* C1: in every run the bring-up steps start and end strictly in the claimed
\* order, a step starting only after the one before it has ended: whatever has
\* happened so far is an initial part of graphics init, serial init, MADT
\* parse, snapshot, page-table construction, root activation, frame-buffer
\* address registration, CPU init, timer init, legacy-input check, image
\* hardening, interrupt unmask, idle.
C1_StepsInOrder ==
    /\ Len(trace) <= Len(ClaimedTrace)
    /\ \A k \in 1 .. Len(trace) : trace[k] = ClaimedTrace[k]

\* a run that went through every step and entered idle
C1_Witness ==
    /\ pc = "idle"
    /\ Len(trace) = 2 * Len(ClaimedOrder) - 1

\* the firmware-runtime descriptors of a memory map, in map order
RuntimeDescriptors(m) ==
    SelectSeq(m.map, LAMBDA d : memory_runtime \in d.attribute)

\* every region of the bring-up is in the hierarchy
AllRegionsMapped ==
    /\ RangeMapped(PS, KvaKernelBase, locals.kernel.physical_base,
                   SizeToPages(locals.kernel.size))
    /\ PoolRangeMapped(PS)
    /\ RangeMapped(PS, KvaFrameBuffer.base, locals.display.frame_buffer,
                   KvaFrameBuffer.page_count)
    /\ Translate(PS, KvaDevices.base) = locals.hpet
    /\ Translate(PS, KvaDevices.base + page_size) = apic.io
    /\ Translate(PS, KvaDevices.base + 2 * page_size) = apic.local
    /\ WellFormed(locals.memory_map) =>
         \A k \in 1 .. Len(locals.memory_map.map) :
            LET d == locals.memory_map.map[k]
            IN  memory_runtime \in d.attribute =>
                    RangeMapped(PS, d.virtual_start, d.physical_start,
                                d.number_of_pages)

\* C2: the new root is activated at most once, and exactly once in a run that
\* goes on past the activation; from the activation on, the kernel image, the
\* pool's backing range, the frame-buffer window, the device pages and every
\* firmware-runtime region of the memory map are in the new hierarchy, and no
\* MapPages or MapPagesInRegion call was made after the activation.
C2_ActivatedOnceAfterMapping ==
    /\ activations <= 1
    /\ pc \in {"set_fb", "cpu_init", "timer_init", "ps2", "harden", "section",
               "protect", "flush", "fault", "unmask", "idle_enter", "idle"} =>
           activations = 1
    /\ activations = 1 =>
        /\ cr3 = pool.root
        /\ AllRegionsMapped
        /\ \A k \in 1 .. Len(inserted) : inserted[k].activations = 0

\* the root is active in a run whose memory map holds a runtime region
C2_Witness ==
    /\ pc = "idle"
    /\ activations = 1
    /\ WellFormed(locals.memory_map)
    /\ Len(RuntimeDescriptors(locals.memory_map)) = 2

\* C3 as claimed: the pool's backing range is in the new hierarchy whenever
\* AllocatePhysical is called, for the root or for a table node.
C3_AllocatesOnlyWhenMapped ==
    \A k \in 1 .. Len(allocs) : allocs[k].mapped

\* C3 as amended: the pool's backing range is in the new hierarchy from the
\* activation of the root on; the root and the table nodes of the kernel-image
\* and pool-range mappings are allocated before the range is inserted, and
\* every later AllocatePhysical call (frame buffer, devices, runtime regions)
\* finds the range inserted.
C3_PoolRangeMappedBeforeActivation ==
    /\ activations >= 1 => PoolRangeMapped(PS)
    /\ \A k \in 1 .. Len(allocs) :
        allocs[k].stage \notin {"root", "kernel", "pool"} => allocs[k].mapped
    /\ \A k \in 1 .. Len(allocs) :
        allocs[k].stage = "root" => ~allocs[k].mapped

\* table nodes were allocated both before and after the range was inserted,
\* and the root is active
C3_Witness ==
    /\ activations = 1
    /\ \E k \in 1 .. Len(allocs) : allocs[k].stage = "kernel" /\ ~allocs[k].mapped
    /\ \E k \in 1 .. Len(allocs) : allocs[k].stage = "runtime" /\ allocs[k].mapped

\* the place of a region's class in the claimed order of insertion
ClassRank(class) ==
    CASE class = "kernel" -> 1
      [] class = "pool" -> 2
      [] class = "frame_buffer" -> 3
      [] class = "hpet" -> 4
      [] class = "io_apic" -> 5
      [] class = "local_apic" -> 6
      [] class = "runtime" -> 7

\* C4: the regions are inserted in the order kernel image, pool range,
\* frame-buffer window, HPET page, I/O APIC page, local APIC page, and then
\* the firmware-runtime regions in memory-map order: no region of a later
\* class is inserted before one of an earlier class.
C4_InsertionOrder ==
    /\ \A i, j \in 1 .. Len(inserted) :
        i < j =>
            /\ ClassRank(inserted[i].class) <= ClassRank(inserted[j].class)
            /\ inserted[j].class # "runtime" =>
                   ClassRank(inserted[i].class) < ClassRank(inserted[j].class)
    /\ \A k \in 1 .. Len(inserted) :
        ClassRank(inserted[k].class) <= 6 => ClassRank(inserted[k].class) = k
    /\ WellFormed(locals.memory_map) =>
        LET rt == RuntimeDescriptors(locals.memory_map)
            ins == SelectSeq(inserted, LAMBDA e : e.class = "runtime")
        IN  /\ Len(ins) <= Len(rt)
            /\ \A k \in 1 .. Len(ins) :
                /\ ins[k].virtual = rt[k].virtual_start
                /\ ins[k].physical = rt[k].physical_start
                /\ ins[k].pages = rt[k].number_of_pages

\* all six fixed regions and two different runtime regions are inserted
C4_Witness ==
    /\ IterationReturned
    /\ WellFormed(locals.memory_map)
    /\ Len(inserted) = 8
    /\ inserted[7].virtual # inserted[8].virtual

\* C5: for every valid memory map (a stride of at least the descriptor size,
\* a total size of a whole number of strides) IterateMemoryDescriptors passes
\* the callback the descriptors at offsets 0, stride, 2*stride, ... in that
\* order, none reaching past total_size, and total_size / stride of them by
\* the time it returns.
C5_IterationHonoursStride ==
    WellFormed(locals.memory_map) =>
        LET m == locals.memory_map
        IN  /\ \A k \in 1 .. Len(callbacks) :
                /\ callbacks[k].offset = (k - 1) * m.descriptor_size
                /\ callbacks[k].offset + MinDescriptorSize <= m.size
                /\ callbacks[k].descriptor = m.map[k]
            /\ Len(callbacks) <= m.size \div m.descriptor_size
            /\ IterationReturned =>
                   Len(callbacks) = m.size \div m.descriptor_size

\* the iteration returned from a map of two descriptors wider than the
\* descriptor structure
C5_Witness ==
    /\ IterationReturned
    /\ WellFormed(locals.memory_map)
    /\ locals.memory_map.descriptor_size > MinDescriptorSize
    /\ Len(callbacks) = 2

\* C6: with a declared stride smaller than the descriptor size (0 included)
\* bring-up refuses to proceed: no descriptor is passed to the callback, no
\* runtime region is mapped, the root is not activated.
C6_MalformedStrideRefused ==
    (locals.copied /\ locals.memory_map.descriptor_size < MinDescriptorSize) =>
        /\ callbacks = <<>>
        /\ \A k \in 1 .. Len(inserted) : inserted[k].class # "runtime"
        /\ activations = 0

\* C7: when the primary or the extended header signature does not match,
\* hardening is aborted with a fatal condition: the section table is not read,
\* nothing is zeroed, no entry is edited, interrupts stay masked.
C7_BadHeadersAbortHardening ==
    kernel_nt = "nullptr" =>
        /\ ~table_read
        /\ zeroed = {}
        /\ edits = <<>>
        /\ interrupts = "masked"
        /\ pc \notin {"section", "protect", "flush", "unmask", "idle_enter", "idle"}

\* C8: once an AllocatePhysical call has failed for want of pool pages the
\* machine is halted with a diagnostic: the failed call is the last one made,
\* the MapPages call it was made in (if any) is the last one made, and the
\* root is not activated.
C8_ExhaustionHalts ==
    \A k \in 1 .. Len(allocs) :
        ~allocs[k].ok =>
            /\ k = Len(allocs)
            /\ pc = "halt"
            /\ halted = "page pool exhausted"
            /\ console # <<>> /\ console[Len(console)] = "page pool exhausted"
            /\ activations = 0 /\ cr3 = "boot loader root"
            /\ IF allocs[k].stage = "root"
               THEN inserted = <<>>
               ELSE inserted # <<>> /\ inserted[Len(inserted)].class = allocs[k].stage

\* the pool ran out while regions were being mapped
C8_Witness ==
    /\ halted = "page pool exhausted"
    /\ Len(inserted) = 2
    /\ ~allocs[Len(allocs)].ok

\* the pages a section's extent touches
PagesOf(s) ==
    {KvaKernelBase + s.VirtualAddress + i * page_size :
        i \in 0 .. SizeToPages(s.VirtualSize) - 1}
CellsOfPage(p) == p .. p + page_size - 1
ExtentOf(s) ==
    KvaKernelBase + s.VirtualAddress ..
        KvaKernelBase + s.VirtualAddress + s.VirtualSize - 1
Discardable(s) == IMAGE_SCN_MEM_DISCARDABLE \in s.Characteristics
Writable(s) == IMAGE_SCN_MEM_WRITE \in s.Characteristics
SectionsOf(img) == {img.sections[k] : k \in 1 .. Len(img.sections)}

\* C9 as claimed: after hardening every page of every discardable section
\* reads as all-zero, whatever the section's size.
C9_DiscardablePagesZero ==
    (HardeningDone /\ HeadersValid) =>
        \A s \in SectionsOf(image) :
            Discardable(s) =>
                \A p \in PagesOf(s) : \A a \in CellsOfPage(p) : mem[a] = 0

\* C9 as amended: after hardening every cell of the virtual extent
\* (VirtualSize cells from the section's start) of every discardable section
\* reads as zero; the cells of the section's last page beyond the extent are
\* left as they were.
C9_DiscardableExtentZero ==
    (HardeningDone /\ HeadersValid) =>
        \A s \in SectionsOf(image) :
            Discardable(s) =>
                /\ \A a \in ExtentOf(s) : mem[a] = 0
                /\ \A p \in PagesOf(s) :
                    \A a \in CellsOfPage(p) \ ExtentOf(s) : mem[a] = 1

\* hardening ended on an image with a discardable section whose size is not
\* a whole number of pages
C9_Witness ==
    /\ HardeningDone
    /\ HeadersValid
    /\ \E s \in SectionsOf(image) :
        Discardable(s) /\ s.VirtualSize % page_size # 0 /\ s.VirtualSize > page_size

\* the leaf entry of a page
Leaf(va) ==
    LET p == GetPresentPte(PS, va)
    IN  IF p.found THEN nodes[p.node][p.idx] ELSE NoEntry

\* C10: after hardening, whatever the section table and the flags of its
\* sections, every page of a section neither discardable nor writable has a
\* present leaf entry whose writable bit is clear, and every page of a section
\* flagged writable has its writable bit set.
C10_WriteProtection ==
    (HardeningDone /\ HeadersValid) =>
        \A s \in SectionsOf(image) : \A p \in PagesOf(s) :
            /\ (~Discardable(s) /\ ~Writable(s)) =>
                   Leaf(p).present /\ ~Leaf(p).writable
            /\ Writable(s) => Leaf(p).present /\ Leaf(p).writable

\* hardening ended on an image with a read-only section of more than one page
\* and a writable section
C10_Witness ==
    /\ HardeningDone
    /\ HeadersValid
    /\ \E s \in SectionsOf(image) :
        ~Discardable(s) /\ ~Writable(s) /\ s.VirtualSize > page_size
    /\ \E s \in SectionsOf(image) : Writable(s)

\* C11: during hardening a leaf entry whose writable bit was cleared is
\* flushed from the translation cache before anything else is done: an edited
\* page is unflushed only between its edit and its TlbFlushAddress, it is then
\* the page the loop is at and the last one edited, no other page is unflushed
\* with it, and none is unflushed when hardening has ended.
C11_FlushFollowsEdit ==
    /\ Cardinality(unflushed) <= 1
    /\ unflushed # {} =>
        /\ pc = "flush"
        /\ unflushed = {page}
    /\ pc = "flush" =>
        /\ unflushed = {page}
        /\ edits # <<>> /\ edits[Len(edits)] = page
    /\ HardeningDone => unflushed = {}

\* hardening ended after the entries of two pages were edited
C11_Witness ==
    /\ HardeningDone
    /\ HeadersValid
    /\ Len(edits) >= 2
    /\ edits[1] # edits[2]

\* C12: a hardening pass run again after the first one has completed changes
\* nothing: all through the second pass and after it the memory contents
\* and every entry of every table node equal those the first pass left.
C12_SecondPassChangesNothing ==
    (first_pass # <<>> /\ kernel_nt # "nullptr") =>
        /\ mem = first_pass[1].mem
        /\ nodes = first_pass[1].nodes

\* a second pass ended on an image with a discardable section and a read-only
\* section
C12_Witness ==
    /\ first_pass # <<>>
    /\ pc = "unmask"
    /\ HeadersValid
    /\ \E s \in SectionsOf(image) : Discardable(s)
    /\ \E s \in SectionsOf(image) : ~Discardable(s) /\ ~Writable(s)

\* C13: by the time the iteration has returned, and so before the root is
\* activated, every descriptor of a valid memory map whose attribute has the
\* firmware-runtime bit, whatever its type, has had one MapPages call of its
\* virtual start, its physical start and its page count, and its pages
\* translate one for one to its physical pages; a descriptor without the bit
\* has had no call, and no call was made after the activation.
C13_RuntimeRegionsMapped ==
    /\ activations >= 1 => IterationReturned
    /\ (IterationReturned /\ WellFormed(locals.memory_map)) =>
        LET m == locals.memory_map
            ins == SelectSeq(inserted, LAMBDA e : e.class = "runtime")
        IN  /\ Len(ins) = Len(RuntimeDescriptors(m))
            /\ \A k \in 1 .. Len(m.map) :
                LET d == m.map[k]
                IN  IF memory_runtime \in d.attribute
                    THEN /\ \E j \in 1 .. Len(ins) :
                              /\ ins[j].virtual = d.virtual_start
                              /\ ins[j].physical = d.physical_start
                              /\ ins[j].pages = d.number_of_pages
                              /\ ins[j].activations = 0
                         /\ RangeMapped(PS, d.virtual_start, d.physical_start,
                                        d.number_of_pages)
                    ELSE \A j \in 1 .. Len(ins) :
                              ins[j].virtual # d.virtual_start

\* the root is active after a map with a runtime region of a type other than
\* the runtime-services types, and a region without the runtime bit
C13_Witness ==
    /\ activations = 1
    /\ WellFormed(locals.memory_map)
    /\ \E k \in 1 .. Len(locals.memory_map.map) :
        /\ locals.memory_map.map[k].type = "EfiMemoryMappedIO"
        /\ memory_runtime \in locals.memory_map.map[k].attribute
    /\ \E k \in 1 .. Len(locals.memory_map.map) :
        memory_runtime \notin locals.memory_map.map[k].attribute

\* how many times a step has started
Starts(step) ==
    Cardinality({k \in 1 .. Len(trace) : trace[k] = [step |-> step, ev |-> "start"]})

\* C14: interrupts are masked in every state up to the unmask statement, which
\* runs at most once, and exactly once in a run that reaches idle; when they
\* are unmasked the hardening loop has ended with every entry of the section
\* table walked (for valid headers, every section of the image), and the only
\* statement that follows is the entry into idle.
C14_MaskedUntilLastStep ==
    /\ Starts("interrupt_unmask") <= 1
    /\ pc \notin {"idle_enter", "idle"} =>
        interrupts = "masked" /\ Starts("interrupt_unmask") = 0
    /\ pc \in {"idle_enter", "idle"} =>
        interrupts = "unmasked" /\ Starts("interrupt_unmask") = 1
    /\ interrupts = "unmasked" =>
        /\ HardeningDone
        /\ section_i = Len(sections)
        /\ pc \notin {"section", "protect", "flush"}
        /\ unflushed = {}
        /\ HeadersValid =>
            /\ sections = image.sections
            /\ \A k \in 1 .. Len(sections) :
                /\ Discardable(sections[k]) => (k - 1) \in zeroed
                /\ (~Discardable(sections[k]) /\ ~Writable(sections[k])) =>
                       \A p \in PagesOf(sections[k]) :
                           \E e \in 1 .. Len(edits) : edits[e] = p

\* idle is entered with interrupts unmasked after the hardening of an image
\* of two sections
C14_Witness ==
    /\ pc = "idle"
    /\ interrupts = "unmasked"
    /\ HeadersValid
    /\ Len(sections) = 2

\* C15: the legacy-input check never stops the bring-up: whatever the flag,
\* the statement after the check is the hardening pass and the machine is not
\* halted by it (with valid headers the run goes on to the unmask and idle
\* without halting or faulting); with the flag set ps2::Initialize is called
\* and nothing is logged, with the flag clear it is not called and the message
\* is logged.
C15_LegacyInputNotFatal ==
    HasEvent("legacy_input_check", "end") =>
        /\ pc \in {"harden", "section", "protect", "flush", "fault", "unmask",
                   "idle_enter", "idle"}
        /\ pc = "fault" => kernel_nt = "nullptr"
        /\ halted # "" => (pc = "fault" /\ kernel_nt = "nullptr")
        /\ IF locals.i8042
           THEN /\ ps2_init
                /\ \A k \in 1 .. Len(console) :
                    console[k] # "No PS/2 legacy support."
           ELSE /\ ~ps2_init
                /\ console # <<>> /\ console[1] = "No PS/2 legacy support."

\* idle is reached without the legacy input controller
C15_Witness ==
    /\ pc = "idle"
    /\ locals.copied
    /\ ~locals.i8042
    /\ ~ps2_init
    /\ interrupts = "unmasked"

\* C16 as claimed: once the copies of the snapshot are made, nothing is read
\* through the handoff record or from the firmware-owned memory it points to.
C16_NothingReadAfterSnapshot ==
    \A r \in reads : ~r.copied

\* C16 as amended: once the copies of the snapshot are made, the handoff
\* record itself is never read again, and every later step takes its values
\* from the copies; the copy of the memory map is the handle only (buffer
\* pointer, stride, total size), so the memory-map iteration still reads the
\* descriptors in the firmware-owned buffer, through the copied pointer, and
\* it does so only before the root is activated.
C16_RecordNotReadAfterSnapshot ==
    /\ \A r \in reads : r.copied => r.target = "memory descriptors"
    /\ [target |-> "memory descriptors", copied |-> FALSE] \notin reads
    /\ ([target |-> "memory descriptors", copied |-> TRUE] \in reads) = (callbacks # <<>>)
    /\ callbacks # <<>> => locals.copied
    /\ \A k \in 1 .. Len(inserted) : inserted[k].activations = 0
    /\ locals.copied =>
        /\ locals.memory_map = loader_block.memory_map
        /\ locals.display = loader_block.display
        /\ locals.kernel = loader_block.kernel
        /\ locals.hpet = loader_block.hpet
        /\ locals.i8042 = loader_block.i8042
        /\ locals.pt_physical = loader_block.page_tables_pool
        /\ locals.pt_pages = loader_block.page_tables_pool_count
    /\ pool.pages # 0 =>
        /\ locals.copied
        /\ pool.physical = locals.pt_physical /\ pool.pages = locals.pt_pages

\* idle is reached after the descriptors were read through the copied handle
C16_Witness ==
    /\ pc = "idle"
    /\ [target |-> "memory descriptors", copied |-> TRUE] \in reads
    /\ [target |-> "loader_block", copied |-> FALSE] \in reads
    /\ Len(callbacks) = 2

\* the entry (node, index) is the leaf entry of a page of the section
LeafOfSection(n, i, s) ==
    \E p \in PagesOf(s) :
        GetPresentPte(PS, p) = [found |-> TRUE, node |-> n, idx |-> i]

\* C17: from the start of the hardening of an image with valid headers on,
\* no table node is added, every entry keeps its present bit and its physical
\* target, the only entries whose writable bit differs from what hardening
\* found are leaf entries of pages of sections neither writable nor
\* discardable (where it went from set to clear), the only memory cells whose
\* contents differ lie in the extent of a discardable section, and the pool
\* cursor and the root are as they were.
C17_HardeningFrame ==
    (HasEvent("image_hardening", "start") /\ HeadersValid) =>
        /\ Len(nodes) = Len(before_hardening)
        /\ pool.used = Len(nodes)
        /\ cr3 = pool.root
        /\ \A n \in 1 .. Len(nodes) : \A i \in 0 .. EntriesPerTable - 1 :
            LET e == nodes[n][i]
                b == before_hardening[n][i]
            IN  /\ e.present = b.present
                /\ e.addr = b.addr
                /\ e.writable # b.writable =>
                    /\ b.writable /\ ~e.writable
                    /\ \E s \in SectionsOf(image) :
                        /\ ~Discardable(s) /\ ~Writable(s)
                        /\ LeafOfSection(n, i, s)
        /\ \A a \in DOMAIN mem :
            mem[a] # 1 =>
                \E s \in SectionsOf(image) : Discardable(s) /\ a \in ExtentOf(s)
        /\ \A s \in SectionsOf(image) :
            (Writable(s) /\ ~Discardable(s)) =>
                \A p \in PagesOf(s) :
                    /\ Leaf(p).present /\ Leaf(p).writable
                    /\ \A a \in CellsOfPage(p) : mem[a] = 1

\* hardening ended having zeroed one section and edited the entries of
\* another
C17_Witness ==
    /\ HardeningDone
    /\ HeadersValid
    /\ zeroed # {}
    /\ edits # <<>>
    /\ nodes # before_hardening

\* the kernel range of the new hierarchy
KernelRange ==
    KvaKernelBase ..
        KvaKernelBase + SizeToPages(locals.kernel.size) * page_size - 1

\* every entry of the section table walked lies inside the image size the
\* handoff record gives
SectionsInsideImage ==
    \A k \in 1 .. Len(sections) :
        sections[k].VirtualAddress + sections[k].VirtualSize <= locals.kernel.size

\* C18: the kernel image is the first region inserted, with
\* SizeToPages(kernel.size) pages and before the activation; and when every
\* section's extent lies inside kernel.size, every page address the
\* write-protect loop is about to pass to GetPresentPte, or has passed to it,
\* lies in that range and has a present leaf entry that translates it to the
\* image's physical page, so that the section loop takes no fault.
C18_PteLookupsMapped ==
    /\ inserted # <<>> =>
        /\ inserted[1].class = "kernel"
        /\ inserted[1].virtual = KvaKernelBase
        /\ inserted[1].pages = SizeToPages(locals.kernel.size)
        /\ inserted[1].activations = 0
    /\ SectionsInsideImage =>
        /\ pc = "fault" => (kernel_nt = "nullptr" /\ ~table_read)
        /\ \A k \in 1 .. Len(edits) : edits[k] \in KernelRange
        /\ (pc \in {"protect", "flush"} /\ page < SectionEnd) =>
            /\ activations = 1
            /\ page \in KernelRange
            /\ GetPresentPte(PS, page).found
            /\ Translate(PS, page) =
                   locals.kernel.physical_base + (page - KvaKernelBase)

\* the loop is at the last page of an image whose size is not a whole number
\* of pages, and has edited its entry
C18_Witness ==
    /\ pc = "flush"
    /\ HeadersValid
    /\ locals.kernel.size % page_size # 0
    /\ page = KvaKernelBase + (SizeToPages(locals.kernel.size) - 1) * page_size
    /\ edits[Len(edits)] = page

\* the run has come to its end: the machine is stopped, or idle is entered
Stopped == pc \in {"halt", "fault"}
IdleReached == pc = "idle" /\ interrupts = "unmasked"

====
